---- MODULE Spec2Model ----
(***************************************************************************)
(* Model of src/term.rs: the budgeted writer MaxLenWriter, the pass-through *)
(* writer StdoutLock, progress_bar_with_success / progress_bar and          *)
(* terminal_file_link.                                                      *)
(*                                                                          *)
(* Bytes are integers 0..255, a &str is the sequence of its Unicode scalar  *)
(* values and its byte form is their UTF-8 encoding.  The sink (the locked  *)
(* stdout) is the sequence of the buffers it accepted, one record per       *)
(* write_all / queue call, together with the number of calls it received.   *)
(* The sink fails at most once, at its fail_at-th call (0: never).          *)
(***************************************************************************)
EXTENDS Integers, Sequences, FiniteSets, TLC

VARIABLES
    kind,            \* which CountedWrite implementation: "MaxLenWriter" | "StdoutLock"
    len,             \* MaxLenWriter.len
    max_len,         \* MaxLenWriter.max_len
    stdout,          \* buffers accepted by the sink, in order
    sink_calls,      \* write_all / queue calls the sink has received
    fail_at,         \* index of the sink call that returns an I/O error (0: none)
    overflow_checks, \* build profile: TRUE (debug) panics on integer overflow and
                     \* runs the debug_assert!s, FALSE (release) wraps and skips them
    op,              \* the last operation called
    arg,             \* its byte / text argument
    len0,            \* len when it was called
    calls0,          \* sink_calls when it was called
    out0,            \* Len(stdout) when it was called
    result,          \* "none" | "ok" | "err" | "panic"
    ncalls,          \* operations called on this writer so far
    pending, failed, success, total, line_width,   \* arguments of the renderer
    bar              \* the renderer's locals once computed

vars == <<kind, len, max_len, stdout, sink_calls, fail_at, overflow_checks, op,
          arg, len0, calls0, out0, result, ncalls, pending, failed, success,
          total, line_width, bar>>

----------------------------------------------------------------------------
(* Bounds of the model *)

MaxBudget == 3       \* largest max_len a MaxLenWriter is created with
MaxStrLen == 2       \* longest &str argument, in scalar values
MaxAsciiLen == 2     \* longest &[u8] argument
MaxAdditional == 2   \* largest small argument of add_to_len
MaxCalls == 3        \* operations per writer
MaxFailAt == 3       \* latest sink call that may fail
MaxCount == 3        \* largest small counter / total of a render
MaxBody == 3         \* bar bodies of 4..4+MaxBody columns
NarrowLineWidth == 10  \* a line width far below the minimum
WideLineWidth == 120   \* a wide terminal
UsizeBits == 16      \* width of usize: the target's; Rust's minimum is taken, the
                     \* wrap at 2^UsizeBits is the same at every width

----------------------------------------------------------------------------
(* Machine integers *)

RECURSIVE Pow2(_)
Pow2(n) == IF n = 0 THEN 1 ELSE 2 * Pow2(n - 1)

USIZE_MOD == Pow2(UsizeBits)
USIZE_MAX == USIZE_MOD - 1

Min(a, b) == IF a < b THEN a ELSE b
Max(a, b) == IF a > b THEN a ELSE b

\* usize::saturating_sub
saturating_sub(a, b) == IF a > b THEN a - b ELSE 0

\* `a += b` on usize: the wrapped value, and whether the addition overflowed
AddUsize(a, b) == [v |-> (a + b) % USIZE_MOD, ovf |-> a + b > USIZE_MAX]

----------------------------------------------------------------------------
(* UTF-8 *)

\* 'a', U+00E9, U+20AC, U+1F600: one scalar value of each encoded length
Chars == {97, 233, 8364, 128512}

len_utf8(c) == IF c < 128 THEN 1 ELSE IF c < 2048 THEN 2 ELSE IF c < 65536 THEN 3 ELSE 4

Utf8(c) ==
    IF c < 128 THEN <<c>>
    ELSE IF c < 2048 THEN <<192 + (c \div 64), 128 + (c % 64)>>
    ELSE IF c < 65536 THEN
        <<224 + (c \div 4096), 128 + ((c \div 64) % 64), 128 + (c % 64)>>
    ELSE <<240 + (c \div 262144), 128 + ((c \div 4096) % 64),
           128 + ((c \div 64) % 64), 128 + (c % 64)>>

\* str::as_bytes
RECURSIVE as_bytes(_)
as_bytes(s) == IF s = <<>> THEN <<>> ELSE Utf8(Head(s)) \o as_bytes(Tail(s))

\* str::char_indices: <<byte offset, scalar value>> for every char
char_indices(s) ==
    [i \in 1..Len(s) |-> <<Len(as_bytes(SubSeq(s, 1, i - 1))), s[i]>>]

\* Iterator::take
take(seq, n) == SubSeq(seq, 1, Min(n, Len(seq)))

IsContinuation(b) == b >= 128 /\ b < 192

\* the number of scalar values that start in a byte sequence
CharStarts(bytes) == Cardinality({i \in 1..Len(bytes) : ~IsContinuation(bytes[i])})

\* length of the encoding a lead byte announces (0: not a lead byte)
LeadLen(b) ==
    IF b < 128 THEN 1 ELSE IF b < 192 THEN 0 ELSE IF b < 224 THEN 2
    ELSE IF b < 240 THEN 3 ELSE 4

\* a byte sequence is well formed UTF-8 when it splits into complete encodings
RECURSIVE WellFormed(_)
WellFormed(bytes) ==
    IF bytes = <<>> THEN TRUE
    ELSE LET n == LeadLen(Head(bytes)) IN
         /\ n > 0
         /\ n <= Len(bytes)
         /\ \A i \in 2..n : IsContinuation(bytes[i])
         /\ WellFormed(SubSeq(bytes, n + 1, Len(bytes)))

\* decoding of well formed UTF-8 back to scalar values
DecodeOne(bytes, n) ==
    IF n = 1 THEN bytes[1]
    ELSE IF n = 2 THEN (bytes[1] - 192) * 64 + (bytes[2] - 128)
    ELSE IF n = 3 THEN
        (bytes[1] - 224) * 4096 + (bytes[2] - 128) * 64 + (bytes[3] - 128)
    ELSE (bytes[1] - 240) * 262144 + (bytes[2] - 128) * 4096
         + (bytes[3] - 128) * 64 + (bytes[4] - 128)

RECURSIVE Decode(_)
Decode(bytes) ==
    IF bytes = <<>> THEN <<>>
    ELSE LET n == LeadLen(Head(bytes)) IN
         <<DecodeOne(bytes, n)>> \o Decode(SubSeq(bytes, n + 1, Len(bytes)))

----------------------------------------------------------------------------
(* The sink *)

\* one accepted buffer: bytes written through write_ascii / write_str, visible
\* bytes written to the raw stdout, or the bytes of a zero-width control sequence
Counted(data) == [kind |-> "counted", data |-> data]
Bytes(data) == [kind |-> "bytes", data |-> data]
Escape(data) == [kind |-> "escape", data |-> data]

\* Write::write_all / QueueableCommand::queue on the sink `s` = [out, calls]:
\* an empty buffer makes no call; the fail_at-th call fails and stores nothing
SinkWrite(s, rec, fa) ==
    IF rec.data = <<>> THEN [sink |-> s, ok |-> TRUE]
    ELSE LET n == s.calls + 1 IN
         IF n = fa
         THEN [sink |-> [out |-> s.out, calls |-> n], ok |-> FALSE]
         ELSE [sink |-> [out |-> Append(s.out, rec), calls |-> n], ok |-> TRUE]

\* an error that is dropped instead of returned
ErrIgnored(r) == FALSE

\* the `?` operator: return early exactly when the call returned Err
IsErr(r) == ~r.ok

----------------------------------------------------------------------------
(* CountedWrite *)

Writer(k, l, m) == [kind |-> k, len |-> l, max_len |-> m]
Outcome(w, s, r) == [w |-> w, sink |-> s, res |-> r]

\* `self.len += n` under the build profile
AddLen(w, s, n) ==
    LET sum == AddUsize(w.len, n) IN
    IF sum.ovf /\ overflow_checks THEN Outcome(w, s, "panic")
    ELSE Outcome(Writer(w.kind, sum.v, w.max_len), s, "ok")

\* a slice that ends one byte after the last char's first byte
WriteEndOneByte(ind, c) == ind + 1

\* the end of the byte slice write_str hands to the sink
WriteEnd(ind, c) == ind + len_utf8(c)

\* what write_str adds to len
StrAdvance(ind, c) == ind + 1

write_ascii(w, s, ascii, fa) ==
    IF w.kind = "StdoutLock"
    THEN LET r == SinkWrite(s, Counted(ascii), fa) IN
         Outcome(w, r.sink, IF r.ok THEN "ok" ELSE "err")
    ELSE LET n == Min(Len(ascii), saturating_sub(w.max_len, w.len)) IN
         IF n > 0
         THEN LET r == SinkWrite(s, Counted(SubSeq(ascii, 1, n)), fa) IN
              IF IsErr(r) THEN Outcome(w, r.sink, "err") ELSE AddLen(w, r.sink, n)
         ELSE Outcome(w, s, "ok")

write_str(w, s, unicode, fa) ==
    IF w.kind = "StdoutLock"
    THEN LET r == SinkWrite(s, Counted(as_bytes(unicode)), fa) IN
         Outcome(w, r.sink, IF r.ok THEN "ok" ELSE "err")
    ELSE LET taken == take(char_indices(unicode), saturating_sub(w.max_len, w.len)) IN
         IF taken # <<>>
         THEN LET ind == taken[Len(taken)][1]
                  c == taken[Len(taken)][2]
                  r == SinkWrite(s, Counted(SubSeq(as_bytes(unicode), 1, WriteEnd(ind, c))), fa)
              IN IF IsErr(r) THEN Outcome(w, r.sink, "err")
                 ELSE AddLen(w, r.sink, StrAdvance(ind, c))
         ELSE Outcome(w, s, "ok")

add_to_len(w, s, additional) == AddLen(w, s, additional)

----------------------------------------------------------------------------
(* u16 arithmetic of the renderer *)

U16_BITS == 16
U16_MOD == Pow2(U16_BITS)

\* the wrapped value of an operation, and whether it left the u16 range
Mul16(a, b) == [v |-> (a * b) % U16_MOD, ovf |-> a * b >= U16_MOD]
Add16(a, b) == [v |-> (a + b) % U16_MOD, ovf |-> a + b >= U16_MOD]
Sub16(a, b) == [v |-> (a - b + U16_MOD) % U16_MOD, ovf |-> a < b]

\* the number of iterations of `for _ in a..b`
RangeLen(a, b) == IF b > a THEN b - a ELSE 0

\* Display of an unsigned integer: its decimal digits in ASCII
RECURSIVE Decimal(_)
Decimal(n) == IF n < 10 THEN <<48 + n>> ELSE Decimal(n \div 10) \o <<48 + (n % 10)>>

\* the `{:>3}` format: right-justified in three columns, never truncated
RECURSIVE PadLeft(_, _)
PadLeft(s, w) == IF Len(s) >= w THEN s ELSE PadLeft(<<32>> \o s, w)

\* n copies of a one-byte write
Repeat(rec, n) == [i \in 1..n |-> rec]

----------------------------------------------------------------------------
(* progress_bar_with_success *)

TOTAL_LIMIT == 1000
PROGRESS == <<80, 114, 111, 103, 114, 101, 115, 115, 58, 32>>   \* "Progress: "
PREFIX == PROGRESS \o <<91>>                                     \* "Progress: ["
PREFIX_WIDTH == Len(PREFIX)
POSTFIX_WIDTH == Len(<<93, 32, 120, 120, 120, 47, 120, 120, 120>>) \* "] xxx/xxx"
WRAPPER_WIDTH == PREFIX_WIDTH + POSTFIX_WIDTH
MIN_LINE_WIDTH == WRAPPER_WIDTH + 4

HASH == Bytes(<<35>>)     \* b"#"
ARROW == Bytes(<<62>>)    \* b">"
DASH == Bytes(<<45>>)     \* b"-"

\* crossterm's SetForegroundColor as it is queued: CSI, the colour's code, 'm'
ColorCode ==
    [Red |-> <<51, 56, 59, 53, 59, 57>>,        \* 38;5;9
     Green |-> <<51, 56, 59, 53, 59, 49, 48>>,  \* 38;5;10
     Blue |-> <<51, 56, 59, 53, 59, 49, 50>>,   \* 38;5;12
     Reset |-> <<51, 57>>]                      \* 39
SetForegroundColor(c) == Escape(<<27, 91>> \o ColorCode[c] \o <<109>>)

PROGRESS_FAILED_COLOR == "Red"
PROGRESS_SUCCESS_COLOR == "Green"
PROGRESS_PENDING_COLOR == "Blue"

\* the two debug_assert!s, compiled in with the debug profile only
DebugAsserts(p, f, su, t) == t < TOTAL_LIMIT /\ p + f + su <= t

\* the degraded form taken only when the wrapper itself does not fit
DegradedBelowWrapper(lw) == lw < WRAPPER_WIDTH

\* the degraded form is taken below the minimum line width
Degraded(lw) == lw < MIN_LINE_WIDTH

\* a run of sink calls, each followed by `?` (split in halves to keep the
\* evaluation shallow: the calls are still made in order, up to the first Err)
RECURSIVE WriteAll(_, _, _)
WriteAll(s, plan, fa) ==
    IF plan = <<>> THEN [sink |-> s, ok |-> TRUE]
    ELSE IF Len(plan) = 1 THEN SinkWrite(s, plan[1], fa)
    ELSE LET half == Len(plan) \div 2
             r == WriteAll(s, SubSeq(plan, 1, half), fa)
         IN  IF IsErr(r) THEN r
             ELSE WriteAll(r.sink, SubSeq(plan, half + 1, Len(plan)), fa)

\* the three boundaries, the tie-break and the marker column
Geometry(width, p, f, su, t) ==
    LET fs == Add16(f, su)
        fsp == Add16(fs.v, p)
        mf == Mul16(width, f)
        ms == Mul16(width, fs.v)
        mp == Mul16(width, fsp.v)
        failed_end0 == mf.v \div t
        success_end0 == ms.v \div t
        pending_end0 == mp.v \div t
        pending_end1 == Max(pending_end0, 1)
        hitS == p > 0 /\ pending_end1 = success_end0
        hitF == p > 0 /\ pending_end1 = failed_end0
        success_end1 == IF hitS THEN Sub16(success_end0, 1) ELSE [v |-> success_end0, ovf |-> FALSE]
        failed_end1 == IF hitF THEN Sub16(failed_end0, 1) ELSE [v |-> failed_end0, ovf |-> FALSE]
        pending_end2 == IF p > 0 THEN Sub16(pending_end1, 1) ELSE [v |-> pending_end0, ovf |-> FALSE]
        wmf == Sub16(width, pending_end2.v)
        red == IF wmf.v > 1 THEN Sub16(wmf.v, 1) ELSE [v |-> 0, ovf |-> FALSE]
    IN  [overflow |-> fs.ovf \/ fsp.ovf \/ mf.ovf \/ ms.ovf \/ mp.ovf,
         underflow |-> success_end1.ovf \/ failed_end1.ovf \/ pending_end2.ovf
                       \/ wmf.ovf \/ red.ovf,
         failed_end |-> failed_end1.v,
         success_end |-> success_end1.v,
         pending_end |-> pending_end2.v,
         width_minus_filled |-> wmf.v,
         red_part_width |-> red.v]

\* the sink calls of the bar body and the postfix, in order
BarWrites(width, g, p, f, su, t) ==
    (IF f > 0
     THEN <<SetForegroundColor(PROGRESS_FAILED_COLOR)>> \o Repeat(HASH, g.failed_end)
     ELSE <<>>)
    \o <<SetForegroundColor(PROGRESS_SUCCESS_COLOR)>>
    \o Repeat(HASH, RangeLen(g.failed_end, g.success_end))
    \o (IF p > 0
        THEN <<SetForegroundColor(PROGRESS_PENDING_COLOR)>>
             \o Repeat(HASH, RangeLen(g.success_end, g.pending_end))
        ELSE <<>>)
    \o (IF g.pending_end < width THEN <<ARROW>> ELSE <<>>)
    \o (IF g.width_minus_filled > 1
        THEN <<SetForegroundColor("Red")>> \o Repeat(DASH, g.red_part_width)
        ELSE <<>>)
    \o <<SetForegroundColor("Reset")>>
    \o <<Bytes(<<93, 32>> \o PadLeft(Decimal(Add16(f, su).v), 3) \o <<47>> \o Decimal(t))>>

BarOutcome(w, s, r, b) == [w |-> w, sink |-> s, res |-> r, bar |-> b]

BarLocals(path, width, g) ==
    [computed |-> TRUE, path |-> path, width |-> width, failed_end |-> g.failed_end,
     success_end |-> g.success_end, pending_end |-> g.pending_end,
     underflow |-> g.underflow, overflow |-> g.overflow]

NoBar ==
    [computed |-> FALSE, path |-> "none", width |-> 0, failed_end |-> 0,
     success_end |-> 0, pending_end |-> 0, underflow |-> FALSE, overflow |-> FALSE]

PathOnly(path) == [NoBar EXCEPT !.path = path]

progress_bar_with_success(w, s, p, f, su, t, lw, fa) ==
    IF overflow_checks /\ ~DebugAsserts(p, f, su, t) THEN BarOutcome(w, s, "panic", NoBar)
    ELSE IF Degraded(lw)
    THEN LET r1 == write_ascii(w, s, PROGRESS, fa) IN
         IF r1.res # "ok" THEN BarOutcome(r1.w, r1.sink, r1.res, PathOnly("degraded"))
         ELSE LET done == Add16(f, su) IN
              IF done.ovf /\ overflow_checks
              THEN BarOutcome(r1.w, r1.sink, "panic", PathOnly("degraded"))
              ELSE LET r2 == write_ascii(r1.w, r1.sink,
                                         Decimal(done.v) \o <<47>> \o Decimal(t), fa)
                   IN BarOutcome(r2.w, r2.sink, r2.res, PathOnly("degraded"))
    ELSE LET r0 == SinkWrite(s, Bytes(PREFIX), fa) IN
         IF IsErr(r0) THEN BarOutcome(w, r0.sink, "err", PathOnly("normal"))
         ELSE LET width == Sub16(lw, WRAPPER_WIDTH).v IN
              IF t = 0 THEN BarOutcome(w, r0.sink, "panic", PathOnly("normal"))
              ELSE LET g == Geometry(width, p, f, su, t) IN
                   IF (g.overflow \/ g.underflow) /\ overflow_checks
                   THEN BarOutcome(w, r0.sink, "panic", PathOnly("normal"))
                   ELSE LET r == WriteAll(r0.sink, BarWrites(width, g, p, f, su, t), fa) IN
                        BarOutcome(w, r.sink, IF r.ok THEN "ok" ELSE "err",
                                   BarLocals("normal", width, g))

\* progress_bar: the two-state form
progress_bar(w, s, progress, t, lw, fa) ==
    progress_bar_with_success(w, s, 0, 0, progress, t, lw, fa)

----------------------------------------------------------------------------
(* terminal_file_link *)

Underlined == Escape(<<27, 91, 52, 109>>)          \* SetAttribute(Attribute::Underlined)
NoUnderline == Escape(<<27, 91, 50, 52, 109>>)     \* SetAttribute(Attribute::NoUnderline)
OSC8 == <<27, 93, 56, 59, 59>>                     \* b"\x1b]8;;"
ST == <<27, 92>>                                   \* b"\x1b\\"
FILE_URI == <<102, 105, 108, 101, 58, 47, 47>>     \* b"file://"

terminal_file_link(w, s, path, canonical_path, color, fa) ==
    LET r1 == WriteAll(s, <<SetForegroundColor(color), Underlined,
                            Escape(OSC8 \o FILE_URI),
                            Escape(as_bytes(canonical_path)),
                            Escape(ST)>>, fa)
    IN  IF IsErr(r1) THEN Outcome(w, r1.sink, "err")
        ELSE LET r2 == write_str(w, r1.sink, path, fa) IN
             IF r2.res # "ok" THEN r2
             ELSE LET r3 == WriteAll(r2.sink, <<Escape(OSC8 \o ST),
                                                SetForegroundColor("Reset"),
                                                NoUnderline>>, fa)
                  IN Outcome(r2.w, r3.sink, IF IsErr(r3) THEN "err" ELSE "ok")

----------------------------------------------------------------------------
(* Inputs *)

RECURSIVE SeqsUpTo(_, _)
SeqsUpTo(S, n) ==
    IF n = 0 THEN {<<>>}
    ELSE LET shorter == SeqsUpTo(S, n - 1) IN
         shorter \cup {Append(s, x) : s \in shorter, x \in S}

Strs == SeqsUpTo(Chars, MaxStrLen)
AsciiBytes == {97, 98}
Asciis == SeqsUpTo(AsciiBytes, MaxAsciiLen)
Additionals == (0..MaxAdditional) \cup {USIZE_MAX}
Paths == SeqsUpTo({97, 8364}, MaxStrLen)           \* visible labels of a link
CanonicalPaths == {<<47, 97>>}                     \* "/a"

\* counters that satisfy the renderer's preconditions
ValidCounters(p, f, su, t) == t < TOTAL_LIMIT /\ p + f + su <= t

\* the renderer's arguments, <<pending, failed, success, total, line_width>>
BarArgs(counts, totals, widths) ==
    {a \in counts \X counts \X counts \X totals \X widths :
        ValidCounters(a[1], a[2], a[3], a[4])}

\* the few renders the writer's state machine mixes with its other calls
FewBarArgs == BarArgs(0..1, {1}, {MIN_LINE_WIDTH - 1, MIN_LINE_WIDTH})

\* the renders of the renderer's own state machine: small counters and the
\* sampled large ones, line widths around the minimum and one wide terminal
SampleCounts == {10, 56, 600, 999}
SampleTotals == {10, 100, 999}
Counts == (0..MaxCount) \cup SampleCounts
Totals == (0..MaxCount) \cup SampleTotals
LineWidths ==
    {NarrowLineWidth} \cup ((MIN_LINE_WIDTH - 1)..(MIN_LINE_WIDTH + MaxBody))
    \cup {WideLineWidth}

----------------------------------------------------------------------------
(* The writer as a state machine: MaxLenWriter::new, then any calls *)

Init ==
    /\ kind = "MaxLenWriter"
    /\ len = 0
    /\ max_len \in 0..MaxBudget
    /\ stdout = <<>>
    /\ sink_calls = 0
    /\ fail_at \in 0..MaxFailAt
    /\ overflow_checks \in BOOLEAN
    /\ op = "new"
    /\ arg = <<>>
    /\ len0 = 0
    /\ calls0 = 0
    /\ out0 = 0
    /\ result = "none"
    /\ ncalls = 0
    /\ pending = 0 /\ failed = 0 /\ success = 0 /\ total = 0 /\ line_width = 0
    /\ bar = NoBar

Self == Writer(kind, len, max_len)
Sink == [out |-> stdout, calls |-> sink_calls]

\* the state after the call `name(a)` returned the outcome `o`
Returns(name, a, o) ==
    /\ op' = name
    /\ arg' = a
    /\ len0' = len
    /\ calls0' = sink_calls
    /\ out0' = Len(stdout)
    /\ ncalls' = ncalls + 1
    /\ kind' = o.w.kind
    /\ len' = o.w.len
    /\ max_len' = o.w.max_len
    /\ stdout' = o.sink.out
    /\ sink_calls' = o.sink.calls
    /\ result' = o.res
    /\ UNCHANGED <<fail_at, overflow_checks>>

\* a panic ends the program
CanCall == result # "panic" /\ ncalls < MaxCalls

WriteAscii ==
    /\ CanCall
    /\ \E ascii \in Asciis :
          Returns("write_ascii", ascii, write_ascii(Self, Sink, ascii, fail_at))
    /\ UNCHANGED <<pending, failed, success, total, line_width, bar>>

WriteStr ==
    /\ CanCall
    /\ \E unicode \in Strs :
          Returns("write_str", unicode, write_str(Self, Sink, unicode, fail_at))
    /\ UNCHANGED <<pending, failed, success, total, line_width, bar>>

AddToLen ==
    /\ CanCall
    /\ \E additional \in Additionals :
          Returns("add_to_len", <<additional>>, add_to_len(Self, Sink, additional))
    /\ UNCHANGED <<pending, failed, success, total, line_width, bar>>

TerminalFileLink ==
    /\ CanCall
    /\ \E path \in Paths, canonical_path \in CanonicalPaths :
          Returns("terminal_file_link", path,
                  terminal_file_link(Self, Sink, path, canonical_path, "Blue", fail_at))
    /\ UNCHANGED <<pending, failed, success, total, line_width, bar>>

\* progress_bar_with_success(writer, a[1], a[2], a[3], a[4], a[5])
Render(a) ==
    LET o == progress_bar_with_success(Self, Sink, a[1], a[2], a[3], a[4], a[5], fail_at) IN
    /\ Returns("progress_bar_with_success", <<>>, o)
    /\ bar' = o.bar
    /\ pending' = a[1] /\ failed' = a[2] /\ success' = a[3]
    /\ total' = a[4] /\ line_width' = a[5]

\* progress_bar(writer, progress, total, line_width)
RenderSimple(progress, t, lw) ==
    LET o == progress_bar(Self, Sink, progress, t, lw, fail_at) IN
    /\ Returns("progress_bar", <<>>, o)
    /\ bar' = o.bar
    /\ pending' = 0 /\ failed' = 0 /\ success' = progress
    /\ total' = t /\ line_width' = lw

ProgressBarWithSuccess == CanCall /\ \E a \in FewBarArgs : Render(a)

ProgressBar ==
    CanCall /\ \E a \in FewBarArgs : a[1] = 0 /\ a[2] = 0 /\ RenderSimple(a[3], a[4], a[5])

Next ==
    \/ WriteAscii
    \/ WriteStr
    \/ AddToLen
    \/ TerminalFileLink
    \/ ProgressBarWithSuccess
    \/ ProgressBar

Spec == Init /\ [][Next]_vars

----------------------------------------------------------------------------
(* The renderer as a function of its arguments: they are drawn at the start, *)
(* with the writer, the build profile and the sink's failure, and rendered   *)
(* once on the fresh sink                                                    *)

InitBar ==
    /\ \E a \in BarArgs(Counts, Totals, LineWidths) :
          /\ pending = a[1] /\ failed = a[2] /\ success = a[3]
          /\ total = a[4] /\ line_width = a[5]
    /\ kind \in {"MaxLenWriter", "StdoutLock"}
    /\ len = 0
    /\ max_len = IF kind = "MaxLenWriter" THEN line_width ELSE 0
    /\ stdout = <<>>
    /\ sink_calls = 0
    /\ fail_at \in 0..MaxFailAt
    /\ overflow_checks \in BOOLEAN
    /\ op = "new"
    /\ arg = <<>>
    /\ len0 = 0
    /\ calls0 = 0
    /\ out0 = 0
    /\ result = "none"
    /\ ncalls = 0
    /\ bar = NoBar

RenderDrawn ==
    /\ ncalls = 0
    /\ Render(<<pending, failed, success, total, line_width>>)

RenderSimpleDrawn ==
    /\ ncalls = 0
    /\ pending = 0 /\ failed = 0
    /\ RenderSimple(success, total, line_width)

NextBar == RenderDrawn \/ RenderSimpleDrawn

SpecBar == InitBar /\ [][NextBar]_vars

----------------------------------------------------------------------------
(* One call on a writer in any state: MaxLenWriter::new(stdout, max_len) and  *)
(* add_to_len(len) lead to every len over an untouched sink; the call budget  *)
(* leaves room for exactly one more call                                      *)

Lens == (0..(MaxBudget + 1)) \cup {USIZE_MAX}

InitCall ==
    /\ kind = "MaxLenWriter"
    /\ len \in Lens
    /\ max_len \in 0..MaxBudget
    /\ stdout = <<>>
    /\ sink_calls = 0
    /\ fail_at \in 0..MaxFailAt
    /\ overflow_checks \in BOOLEAN
    /\ op = "add_to_len"
    /\ arg = <<len>>
    /\ len0 = 0
    /\ calls0 = 0
    /\ out0 = 0
    /\ result = "ok"
    /\ ncalls = MaxCalls - 1
    /\ pending = 0 /\ failed = 0 /\ success = 0 /\ total = 0 /\ line_width = 0
    /\ bar = NoBar

SpecCall == InitCall /\ [][Next]_vars

----------------------------------------------------------------------------
(* Observations *)

\* the bytes of the sink's buffers lo..hi that are of the given kinds
RECURSIVE FlattenRange(_, _, _, _)
FlattenRange(out, lo, hi, kinds) ==
    IF lo > hi THEN <<>>
    ELSE IF lo = hi THEN (IF out[lo].kind \in kinds THEN out[lo].data ELSE <<>>)
    ELSE LET mid == (lo + hi) \div 2 IN
         FlattenRange(out, lo, mid, kinds) \o FlattenRange(out, mid + 1, hi, kinds)

\* the same from buffer `from` on
Flatten(out, from, kinds) == FlattenRange(out, from, Len(out), kinds)

\* the bytes the last call got into the sink through write_ascii / write_str
Wrote == Flatten(stdout, out0 + 1, {"counted"})

\* display columns the sink got through write_ascii / write_str since the
\* writer was made: one per scalar value (one per byte for ASCII)
CountedColumns == CharStarts(Flatten(stdout, 1, {"counted"}))

\* display columns of everything in the sink: control sequences have none
Columns == CharStarts(Flatten(stdout, 1, {"counted", "bytes"}))

\* the budget left when the last call began
Remaining0 == saturating_sub(max_len, len0)

----------------------------------------------------------------------------
(* The claims *)

\* C1: for a MaxLenWriter with budget max_len, after any sequence of
\* write_ascii, write_str and add_to_len calls the display columns emitted
\* through write_ascii and write_str are at most max_len.
BudgetNeverExceeded == kind = "MaxLenWriter" => CountedColumns <= max_len

\* C2: write_str advances len by exactly the number of scalar values it
\* wrote; with no budget left or an empty text it writes nothing, leaves len
\* unchanged and succeeds.
WriteStrAdvancesByChars ==
    op = "write_str" =>
        /\ result = "ok" => len = len0 + CharStarts(Wrote)
        /\ (Remaining0 = 0 \/ arg = <<>>) =>
               result = "ok" /\ Wrote = <<>> /\ len = len0

\* C3: the bytes write_str emits are exactly the encoding of the first
\* min(chars of text, max(0, max_len - len)) scalar values of the text: well
\* formed on their own, never a partial encoding (nothing at all when the
\* sink refuses the write).
WriteStrWritesCharPrefix ==
    op = "write_str" =>
        IF result = "err" THEN Wrote = <<>>
        ELSE /\ WellFormed(Wrote)
             /\ Decode(Wrote) = SubSeq(arg, 1, Min(Len(arg), Remaining0))

\* C3 witness: a text cut after a multi-byte scalar value, with text left over
WriteStrCutAfterMultiByte ==
    /\ op = "write_str" /\ result = "ok"
    /\ Remaining0 > 0 /\ Len(arg) > Remaining0
    /\ arg[Remaining0] >= 128
    /\ Wrote # <<>>

\* C6: when the sink fails during a call, the call returns the error at once:
\* the failing sink call is the last one the call makes, it is made once, and
\* every buffer accepted before it stays in the sink; and a call returns an
\* error only when the sink failed during it.
SinkErrorPropagates ==
    op # "new" =>
        /\ (result = "err") <=> (calls0 < fail_at /\ fail_at <= sink_calls)
        /\ result = "err" =>
               /\ sink_calls = fail_at
               /\ Len(stdout) = out0 + (fail_at - calls0 - 1)

\* C6 witness: a render whose sink failed after it had accepted part of the bar
RenderFailedMidway ==
    /\ op = "progress_bar_with_success" /\ result = "err"
    /\ bar.path = "normal"
    /\ Len(stdout) > out0 + 1

----------------------------------------------------------------------------
(* Observations of a rendered line *)

Rendered == op \in {"progress_bar_with_success", "progress_bar"}

\* the colour in force at the sink's i-th buffer: the last colour queued before it
ColorAt(i) ==
    LET before == {j \in 1..(i - 1) : stdout[j].kind = "escape"} IN
    IF before = {} THEN <<>>
    ELSE stdout[CHOOSE j \in before : \A k \in before : k <= j].data

\* the buffers between the prefix and the postfix of a complete line
Body == 2..(Len(stdout) - 1)

\* one-byte buffers of the body holding `byte`, written in colour `color`
Cells(byte, color) ==
    Cardinality({i \in Body : /\ stdout[i] = Bytes(<<byte>>)
                              /\ ColorAt(i) = SetForegroundColor(color).data})

FailedCells == Cells(35, "Red")
SuccessCells == Cells(35, "Green")
PendingCells == Cells(35, "Blue")
MarkerCells == Cardinality({i \in Body : stdout[i] = Bytes(<<62>>)})
EmptyCells == Cells(45, "Red")
BodyColumns == Cardinality({i \in Body : stdout[i].kind # "escape"})

\* the value of a string of decimal digits
RECURSIVE DecimalValue(_)
DecimalValue(d) ==
    IF d = <<>> THEN 0 ELSE 10 * DecimalValue(SubSeq(d, 1, Len(d) - 1)) + (d[Len(d)] - 48)

IsNumber(d) ==
    /\ d # <<>>
    /\ \A i \in 1..Len(d) : d[i] >= 48 /\ d[i] <= 57
    /\ Len(d) > 1 => d[1] # 48

\* text is "Progress: <done>/<t>" in plain ASCII
IsDegradedLine(text, done, t) ==
    /\ Len(text) > 10
    /\ SubSeq(text, 1, 10) = <<80, 114, 111, 103, 114, 101, 115, 115, 58, 32>>
    /\ \E j \in 11..Len(text) :
          /\ text[j] = 47
          /\ IsNumber(SubSeq(text, 11, j - 1))
          /\ DecimalValue(SubSeq(text, 11, j - 1)) = done
          /\ IsNumber(SubSeq(text, j + 1, Len(text)))
          /\ DecimalValue(SubSeq(text, j + 1, Len(text))) = t

\* C4: for valid counters and line_width >= 24 a completed render emits, between the
\* prefix "Progress: [" and the postfix, exactly line_width - 20 bar columns:
\* failed '#', success '#', pending '#', the '>' marker and the '-' fill sum
\* to the width, with no gap and no excess.
BarFillsWidth ==
    (Rendered /\ line_width >= 24 /\ result = "ok") =>
        /\ stdout[1] = Bytes(PREFIX)
        /\ FailedCells + SuccessCells + PendingCells + MarkerCells + EmptyCells
             = line_width - 20
        /\ BodyColumns = line_width - 20

\* C5: for valid counters and line_width >= 24 the rendered line (prefix, bar
\* body, postfix; zero-width colour sequences excluded) has exactly
\* line_width display columns.
LineFillsLineWidth ==
    (Rendered /\ line_width >= 24 /\ result = "ok") => Columns = line_width

SuccessMonotone ==
    (Rendered /\ bar.computed) =>
        \A s2 \in Counts :
            (s2 > success /\ ValidCounters(pending, failed, s2, total)) =>
                LET g2 == Geometry(bar.width, pending, failed, s2, total) IN
                (~(overflow_checks /\ (g2.overflow \/ g2.underflow))) =>
                    /\ g2.success_end >= bar.success_end
                    /\ RangeLen(g2.failed_end, g2.success_end)
                         >= RangeLen(bar.failed_end, bar.success_end)

\* C9: in the normal path with valid counters and total >= 1 the tie-break
\* keeps the segments ordered, 0 <= failed_end <= success_end <= pending_end
\* <= width at emission, and no unsigned subtraction goes below zero.
SegmentsOrdered ==
    (Rendered /\ bar.computed /\ total >= 1 /\ result = "ok") =>
        /\ 0 <= bar.failed_end
        /\ bar.failed_end <= bar.success_end
        /\ bar.success_end <= bar.pending_end
        /\ bar.pending_end <= bar.width
        /\ ~bar.underflow

\* C10: in the normal path with valid counters and total >= 1 the '>' marker
\* is emitted exactly once when failed + success < total and not at all when
\* failed + success = total.
MarkerIffNotDone ==
    (Rendered /\ line_width >= 24 /\ total >= 1 /\ result = "ok") =>
        MarkerCells = IF failed + success < total THEN 1 ELSE 0

====
